---- MODULE Spec2Model ----
(***************************************************************************)
(* Quiz session store (QuizProvider) and option presenter (Question).      *)
(*                                                                         *)
(* React state is modelled the way the hooks behave: the variables         *)
(* quizState, isQuizStarted and user hold the hook state with every queued *)
(* update already applied (updates are applied in call order, so applying  *)
(* them eagerly gives the value the next render commits); closure holds    *)
(* the fields of the last rendered state that the handlers read directly   *)
(* (not through a functional updater): they keep the value of the last     *)
(* render until Render commits the queued updates.                         *)
(***************************************************************************)
EXTENDS Integers, Sequences, FiniteSets, TLC

VARIABLES
    quizState,        \* useState<QuizState>: latest value, queued updates applied
    isQuizStarted,    \* useState(false): latest value
    user,             \* useState<User | null>: latest value
    closure,          \* what the handlers of the last render captured
    queued,           \* hooks with an update queued since the last render
    localStorage,     \* the four keys of the durable store
    shuffledOptions,  \* useMemo of the Question shown (display order)
    turn,             \* handler calls made in the current event turn
    lastOp,           \* history: the operation invoked last
    startCalled,      \* history: startQuiz was called after the last submitQuiz
                      \* or resetQuiz
    page,             \* "mounted", or "crashed" when an effect of the mount threw
    shuffle           \* one call of shuffleArray: its argument, its copy and
                      \* its loop index

vars == <<quizState, isQuizStarted, user, closure, queued, localStorage,
          shuffledOptions, turn, lastOp, startCalled, page, shuffle>>

----------------------------------------------------------------------------
(* Bounds and inputs *)

\* Date.now() returns one of 1 .. MaxClock
MaxClock == 2

\* handler calls one event turn makes before React renders
MaxBatch == 2

QUIZ_DURATION == 5400000

\* selectedAnswer: null
Null == -1

\* user: null
NoUser == "null"

\* a key that localStorage.getItem finds absent
Absent == <<>>

\* the question bank (questions.json): ids are neither 0-based nor contiguous
questions ==
    << [id |-> 1, options |-> <<"a", "b">>, correctAnswer |-> 0],
       [id |-> 3, options |-> <<"c", "d", "e">>, correctAnswer |-> 2] >>

\* arguments the callers pass
QuestionIds == {1, 2, 3}
AnswerValues == {Null, 0, 2}
QuestionIndexes == -1 .. Len(questions)
TimerValues == {-1000, 1000}
Users == {"alice"}
Times == 1 .. MaxClock

\* the Question component is not mounted
Unmounted == <<>>

\* a stored text that JSON.parse rejects with a SyntaxError
Malformed == <<"{">>

\* no call of shuffleArray is being followed
NoShuffle == [pc |-> "none", options |-> <<>>, array |-> <<>>,
              newArray |-> <<>>, shared |-> FALSE, i |-> 0]

----------------------------------------------------------------------------
(* Pure helpers *)

Min(a, b) == IF a < b THEN a ELSE b
Max(a, b) == IF a > b THEN a ELSE b

\* questions.map(q => ({questionId: q.id, selectedAnswer: null, isAnswered: false}))
InitialAnswers ==
    [i \in 1 .. Len(questions) |->
        [questionId |-> questions[i].id, selectedAnswer |-> Null, isAnswered |-> FALSE]]

getInitialQuizState(t) ==
    [currentQuestion |-> 0,
     answers |-> InitialAnswers,
     timeRemaining |-> QUIZ_DURATION,
     isCompleted |-> FALSE,
     startTime |-> t]

\* JSON.stringify(quizState): the text is modelled as the sequence of its values
Stringify(qs) ==
    << qs.currentQuestion,
       [i \in 1 .. Len(qs.answers) |->
           << qs.answers[i].questionId, qs.answers[i].selectedAnswer,
              qs.answers[i].isAnswered >>],
       qs.timeRemaining,
       qs.isCompleted,
       qs.startTime >>

\* JSON.parse(saved)
Parse(text) ==
    [currentQuestion |-> text[1],
     answers |-> [i \in 1 .. Len(text[2]) |->
                     [questionId |-> text[2][i][1],
                      selectedAnswer |-> text[2][i][2],
                      isAnswered |-> text[2][i][3]]],
     timeRemaining |-> text[3],
     isCompleted |-> text[4],
     startTime |-> text[5]]

\* JSON.parse(text) throws
ParseThrows(text) == text = Malformed

\* mutant: the adopted state gets a new startTime
InitializeQuizStateRestamps(saved, t) ==
    IF saved # Absent /\ ~ParseThrows(saved)
       /\ Len(Parse(saved).answers) = Len(questions)
    THEN [Parse(saved) EXCEPT !.startTime = t]
    ELSE getInitialQuizState(t)

\* the useState initializer of quizState; its catch block only logs, so a
\* text that does not parse falls through to the initial state
InitializeQuizState(saved, t) ==
    IF saved # Absent /\ ~ParseThrows(saved)
    THEN LET parsedState == Parse(saved) IN
         IF Len(parsedState.answers) = Len(questions)
         THEN [parsedState EXCEPT
                 !.startTime = IF parsedState.startTime # 0
                               THEN parsedState.startTime ELSE t]
         ELSE getInitialQuizState(t)
    ELSE getInitialQuizState(t)

\* mutant: the record is located by position instead of questionId
MapAnswersByPosition(answers, questionId, answer) ==
    [i \in 1 .. Len(answers) |->
        IF i = questionId
        THEN [answers[i] EXCEPT !.selectedAnswer = answer,
                                !.isAnswered = (answer # Null)]
        ELSE answers[i]]

\* mutant: the record is marked answered whatever the answer is
MapAnswersMarksAnswered(answers, questionId, answer) ==
    [i \in 1 .. Len(answers) |->
        IF answers[i].questionId = questionId
        THEN [answers[i] EXCEPT !.selectedAnswer = answer, !.isAnswered = TRUE]
        ELSE answers[i]]

\* prev.answers.map(a => a.questionId === questionId ? {...} : a)
MapAnswers(answers, questionId, answer) ==
    [i \in 1 .. Len(answers) |->
        IF answers[i].questionId = questionId
        THEN [answers[i] EXCEPT !.selectedAnswer = answer,
                                !.isAnswered = (answer # Null)]
        ELSE answers[i]]

\* questions.find(q => q.id === id): the position of the first match, 0 if none
RECURSIVE FindQuestion(_, _)
FindQuestion(id, i) ==
    IF i > Len(questions) THEN 0
    ELSE IF questions[i].id = id THEN i
    ELSE FindQuestion(id, i + 1)

\* the forEach of calculateScore over answers[i..]
RECURSIVE CountCorrect(_, _)
CountCorrect(answers, i) ==
    IF i > Len(answers) THEN 0
    ELSE LET q == FindQuestion(answers[i].questionId, 1) IN
         (IF q # 0 /\ answers[i].selectedAnswer = questions[q].correctAnswer
          THEN 1 ELSE 0)
         + CountCorrect(answers, i + 1)

\* mutant: the guard on isCompleted is missing
calculateScoreUnguarded(qs) == CountCorrect(qs.answers, 1)

calculateScore(qs) ==
    IF ~qs.isCompleted THEN 0 ELSE CountCorrect(qs.answers, 1)

\* the filter of getUnansweredQuestions over positions i.. (0-based results)
RECURSIVE UnansweredFrom(_, _)
UnansweredFrom(answers, i) ==
    IF i > Len(answers) THEN <<>>
    ELSE (IF ~answers[i].isAnswered THEN <<i - 1>> ELSE <<>>)
         \o UnansweredFrom(answers, i + 1)

\* mutant: the result holds question ids instead of positions
getUnansweredIds(qs) ==
    LET positions == UnansweredFrom(qs.answers, 1) IN
    [k \in 1 .. Len(positions) |-> qs.answers[positions[k] + 1].questionId]

getUnansweredQuestions(qs) == UnansweredFrom(qs.answers, 1)

----------------------------------------------------------------------------
(* Option presenter *)

\* question.options.map((option, index) => ({originalIndex: index, value: option}))
OptionsWithIndex(q) ==
    [k \in 1 .. Len(q.options) |-> [originalIndex |-> k - 1, value |-> q.options[k]]]

\* the values Math.floor(Math.random() * (i + 1)) can take, for each i of the loop
RandomDraws(n) ==
    {r \in [1 .. n - 1 -> 0 .. n - 1] : \A i \in 1 .. n - 1 : r[i] <= i}

\* mutant: the swap overwrites position i and leaves position j
SwapOverwrites(array, i, j) ==
    [array EXCEPT ![i + 1] = array[j + 1]]

\* [newArray[i], newArray[j]] = [newArray[j], newArray[i]]  (0-based i, j)
Swap(array, i, j) ==
    [array EXCEPT ![i + 1] = array[j + 1], ![j + 1] = array[i + 1]]

\* the loop of shuffleArray from index i down to 1, with the draws r
RECURSIVE ShuffleLoop(_, _, _)
ShuffleLoop(array, i, r) ==
    IF i > 0 THEN ShuffleLoop(Swap(array, i, r[i]), i - 1, r) ELSE array

shuffleArray(array, r) == ShuffleLoop(array, Len(array) - 1, r)

\* every display order useMemo can produce for the question at position p
DisplayOrders(p) ==
    LET q == questions[p + 1] IN
    {shuffleArray(OptionsWithIndex(q), r) : r \in RandomDraws(Len(q.options))}

\* currentAnswer?.selectedAnswer for the question shown (Null if no record)
SelectedOriginalIndex(qs, q) ==
    LET found == {i \in 1 .. Len(qs.answers) : qs.answers[i].questionId = q.id} IN
    IF found = {} THEN Null
    ELSE qs.answers[CHOOSE i \in found : \A j \in found : i <= j].selectedAnswer

\* isSelected of the option at display position k (0-based)
isSelected(qs, q, shown, k) ==
    SelectedOriginalIndex(qs, q) = shown[k + 1].originalIndex

----------------------------------------------------------------------------
(* State *)

RenderedFields(qs, started) ==
    [currentQuestion |-> qs.currentQuestion,
     isCompleted |-> qs.isCompleted,
     isQuizStarted |-> started]


\* first page load with an empty durable store
Init ==
    /\ \E t \in Times : quizState = InitializeQuizState(Absent, t)
    /\ isQuizStarted = FALSE
    /\ user = NoUser
    /\ closure = RenderedFields(quizState, FALSE)
    /\ queued = {}
    /\ localStorage = [state |-> Absent, started |-> Absent,
                       completed |-> Absent, user |-> Absent]
    /\ shuffledOptions = Unmounted
    /\ turn = 0
    /\ lastOp = "init"
    /\ startCalled = FALSE
    /\ page = "mounted"
    /\ shuffle = NoShuffle

----------------------------------------------------------------------------
(* Effects and renders *)

\* mutant: the save effect tests only isCompleted
SaveEffectIgnoresStarted(ls, qs, started) ==
    IF ~qs.isCompleted
    THEN [ls EXCEPT !.state = Stringify(qs)]
    ELSE ls

\* the save effect: localStorage.setItem(STORAGE_KEY, JSON.stringify(quizState))
SaveEffect(ls, qs, started) ==
    IF started /\ ~qs.isCompleted
    THEN [ls EXCEPT !.state = Stringify(qs)]
    ELSE ls

\* The event turn ends and React commits the queued updates: the handlers are
\* re-created over the new state, the save effect runs when one of its
\* dependencies changed, and a mounted Question recomputes its useMemo when
\* the question changed.
Render ==
    /\ turn > 0
    /\ turn' = 0
    /\ closure' = RenderedFields(quizState, isQuizStarted)
    /\ queued' = {}
    /\ localStorage' =
          IF "quizState" \in queued \/ isQuizStarted # closure.isQuizStarted
          THEN SaveEffect(localStorage, quizState, isQuizStarted)
          ELSE localStorage
    /\ IF shuffledOptions # Unmounted
          /\ quizState.currentQuestion # closure.currentQuestion
       THEN shuffledOptions' \in DisplayOrders(quizState.currentQuestion)
       ELSE shuffledOptions' = shuffledOptions
    /\ UNCHANGED <<quizState, isQuizStarted, user, lastOp, startCalled,
                   page, shuffle>>

\* the load effect runs JSON.parse(savedUser) outside any try block: a text
\* that does not parse throws out of the effect, and with no error boundary
\* React unmounts the tree
LoadEffectThrows(ls) == ls.user # Absent /\ ParseThrows(ls.user)

\* the page is loaded again: QuizProvider mounts over the durable store
\* (state initializer, first render, load effect, second render, save effect)
Reload ==
    \E t \in Times :
        LET qs0 == InitializeQuizState(localStorage.state, t)
            savedUser == localStorage.user
            threw == LoadEffectThrows(localStorage)
            started1 == ~threw /\ localStorage.started = <<"true">>
        IN  /\ quizState' = qs0
            /\ user' = IF savedUser # Absent /\ ~threw
                       THEN savedUser[1] ELSE NoUser
            /\ isQuizStarted' = started1
            /\ closure' = RenderedFields(qs0, started1)
            /\ queued' = {}
            /\ localStorage' =
                  IF started1 THEN SaveEffect(localStorage, qs0, started1)
                  ELSE localStorage
            /\ shuffledOptions' = Unmounted
            /\ turn' = 0
            /\ lastOp' = "reload"
            /\ page' = IF threw THEN "crashed" ELSE "mounted"
            /\ UNCHANGED <<startCalled, shuffle>>

\* the Question component of the current question is mounted (again): useMemo runs
MountQuestion ==
    /\ page = "mounted"
    /\ turn = 0
    /\ shuffledOptions' \in DisplayOrders(closure.currentQuestion)
    /\ lastOp' = "mount"
    /\ UNCHANGED <<quizState, isQuizStarted, user, closure, queued,
                   localStorage, turn, startCalled, page, shuffle>>

----------------------------------------------------------------------------
(* Handlers of the context *)

\* a handler is called in the current event turn
Called(op) ==
    /\ page = "mounted"
    /\ turn < MaxBatch
    /\ turn' = turn + 1
    /\ lastOp' = op
    /\ startCalled' = CASE op = "startQuiz" -> TRUE
                         [] op \in {"submitQuiz", "resetQuiz"} -> FALSE
                         [] OTHER -> startCalled
    /\ UNCHANGED <<closure, shuffledOptions, page, shuffle>>

\* setQuizState(updater): the updater runs on the state with the earlier
\* updates applied
SetQuizState(next) ==
    /\ quizState' = next
    /\ queued' = queued \cup {"quizState"}

\* mutant: the restarted attempt begins at the first question
StartUpdaterFromFirst(prev, t) ==
    [prev EXCEPT !.answers = InitialAnswers,
                 !.startTime = t,
                 !.timeRemaining = QUIZ_DURATION,
                 !.currentQuestion = 0]

\* the updater of startQuiz
StartUpdater(prev, t) ==
    [prev EXCEPT !.answers = InitialAnswers,
                 !.startTime = t,
                 !.timeRemaining = QUIZ_DURATION]

\* if (!quizState.isCompleted), read from the render the handler belongs to
StartResets(rendered) == ~rendered.isCompleted

startQuiz ==
    /\ Called("startQuiz")
    /\ isQuizStarted' = TRUE
    /\ localStorage' = [localStorage EXCEPT !.started = <<"true">>]
    /\ IF StartResets(closure)
       THEN /\ \E t \in Times : quizState' = StartUpdater(quizState, t)
            /\ queued' = queued \cup {"isQuizStarted", "quizState"}
       ELSE /\ quizState' = quizState
            /\ queued' = queued \cup {"isQuizStarted"}
    /\ UNCHANGED user

\* mutant: a completed session no longer takes answers
AnswerUpdaterUnlessCompleted(prev, questionId, answer) ==
    IF prev.isCompleted THEN prev
    ELSE [prev EXCEPT !.answers = MapAnswers(prev.answers, questionId, answer)]

\* the updater of updateAnswer
AnswerUpdater(prev, questionId, answer) ==
    [prev EXCEPT !.answers = MapAnswers(prev.answers, questionId, answer)]

updateAnswer(questionId, answer) ==
    /\ Called("updateAnswer")
    /\ SetQuizState(AnswerUpdater(quizState, questionId, answer))
    /\ UNCHANGED <<isQuizStarted, user, localStorage>>

\* what goToQuestion sets, when it sets anything
GoToUpdater(prev, questionIndex) ==
    [prev EXCEPT !.currentQuestion = questionIndex]

\* mutant: the upper bound is off by one
GoToInRangeOffByOne(questionIndex) ==
    questionIndex >= 0 /\ questionIndex <= Len(questions)

GoToInRange(questionIndex) ==
    questionIndex >= 0 /\ questionIndex < Len(questions)

goToQuestion(questionIndex) ==
    /\ Called("goToQuestion")
    /\ IF GoToInRange(questionIndex)
       THEN SetQuizState(GoToUpdater(quizState, questionIndex))
       ELSE UNCHANGED <<quizState, queued>>
    /\ UNCHANGED <<isQuizStarted, user, localStorage>>

\* mutant: the new position is not capped at the last question
NextUpdaterUncapped(prev) ==
    [prev EXCEPT !.currentQuestion = prev.currentQuestion + 1]

NextUpdater(prev) ==
    [prev EXCEPT !.currentQuestion =
        Min(prev.currentQuestion + 1, Len(questions) - 1)]

nextQuestion ==
    /\ Called("nextQuestion")
    /\ SetQuizState(NextUpdater(quizState))
    /\ UNCHANGED <<isQuizStarted, user, localStorage>>

PreviousUpdater(prev) ==
    [prev EXCEPT !.currentQuestion = Max(prev.currentQuestion - 1, 0)]

previousQuestion ==
    /\ Called("previousQuestion")
    /\ SetQuizState(PreviousUpdater(quizState))
    /\ UNCHANGED <<isQuizStarted, user, localStorage>>

\* if (quizState.currentQuestion < questions.length - 1)
SkipAdvances(rendered) == rendered.currentQuestion < Len(questions) - 1

skipQuestion ==
    /\ Called("skipQuestion")
    /\ IF SkipAdvances(closure)
       THEN SetQuizState(NextUpdater(quizState))
       ELSE UNCHANGED <<quizState, queued>>
    /\ UNCHANGED <<isQuizStarted, user, localStorage>>

SubmitUpdater(prev) == [prev EXCEPT !.isCompleted = TRUE]

\* the setItem and removeItem of submitQuiz
SubmitStorage(ls) ==
    [ls EXCEPT !.completed = <<"true">>, !.state = Absent]

submitQuiz ==
    /\ Called("submitQuiz")
    /\ SetQuizState(SubmitUpdater(quizState))
    /\ localStorage' = SubmitStorage(localStorage)
    /\ UNCHANGED <<isQuizStarted, user>>

\* the four removeItem calls of resetQuiz
ResetStorage(ls) ==
    [ls EXCEPT !.state = Absent, !.started = Absent,
               !.completed = Absent, !.user = Absent]

resetQuiz ==
    /\ Called("resetQuiz")
    /\ \E t \in Times : SetQuizState(getInitialQuizState(t))
    /\ isQuizStarted' = FALSE
    /\ localStorage' = ResetStorage(localStorage)
    /\ user' = NoUser

TimerUpdater(prev, timeRemaining) ==
    [prev EXCEPT !.timeRemaining = timeRemaining]

\* if (!quizState.isCompleted), read from the render the handler belongs to
TimerAccepts(rendered) == ~rendered.isCompleted

updateTimer(timeRemaining) ==
    /\ Called("updateTimer")
    /\ IF TimerAccepts(closure)
       THEN SetQuizState(TimerUpdater(quizState, timeRemaining))
       ELSE UNCHANGED <<quizState, queued>>
    /\ UNCHANGED <<isQuizStarted, user, localStorage>>

setUser(u) ==
    /\ Called("setUser")
    /\ user' = u
    /\ queued' = queued \cup {"user"}
    /\ localStorage' = [localStorage EXCEPT !.user = <<u>>]
    /\ UNCHANGED <<quizState, isQuizStarted>>

----------------------------------------------------------------------------
(* Handler of the Question component *)

\* mutant: the display position itself is saved
DisplayIndexToSave(shown, selectedShuffledIndex) == selectedShuffledIndex

\* shuffledOptions[selectedShuffledIndex].originalIndex
OriginalIndexToSave(shown, selectedShuffledIndex) ==
    shown[selectedShuffledIndex + 1].originalIndex

handleAnswerSelect(selectedShuffledIndex) ==
    /\ Called("handleAnswerSelect")
    /\ SetQuizState(AnswerUpdater(quizState,
                        questions[closure.currentQuestion + 1].id,
                        OriginalIndexToSave(shuffledOptions, selectedShuffledIndex)))
    /\ UNCHANGED <<isQuizStarted, user, localStorage>>

----------------------------------------------------------------------------
(* The session store under any caller of its context *)

Next ==
    \/ Render
    \/ Reload
    \/ startQuiz
    \/ \E questionId \in QuestionIds, answer \in AnswerValues :
          updateAnswer(questionId, answer)
    \/ \E questionIndex \in QuestionIndexes : goToQuestion(questionIndex)
    \/ nextQuestion
    \/ previousQuestion
    \/ skipQuestion
    \/ submitQuiz
    \/ resetQuiz
    \/ \E timeRemaining \in TimerValues : updateTimer(timeRemaining)
    \/ \E u \in Users : setUser(u)

Spec == Init /\ [][Next]_vars

----------------------------------------------------------------------------
(* The option presenter over the operations that change what it shows *)

NextPresenter ==
    \/ Render
    \/ Reload
    \/ startQuiz
    \/ \E questionId \in QuestionIds, answer \in AnswerValues :
          updateAnswer(questionId, answer)
    \/ \E questionIndex \in QuestionIndexes : goToQuestion(questionIndex)
    \/ MountQuestion
    \/ \E k \in 0 .. Len(shuffledOptions) - 1 : handleAnswerSelect(k)

SpecPresenter == Init /\ [][NextPresenter]_vars

----------------------------------------------------------------------------
(* One call of shuffleArray, statement by statement, on any option list *)

\* the longest option list shuffled
MaxOptions == 3

\* option texts; two options of a question may carry the same text
OptionTexts == {"a", "b"}

OptionLists == UNION {[1 .. n -> OptionTexts] : n \in 0 .. MaxOptions}

\* mutant: newArray is the argument itself, not a copy of it
NoCopy(array) == [newArray |-> array, shared |-> TRUE]

\* const newArray = [...array]
SpreadCopy(array) == [newArray |-> array, shared |-> FALSE]

\* shuffleArray(optionsWithIndex) is about to run for a question with the
\* given options
InitShuffle ==
    /\ Init!1 /\ Init!2 /\ Init!3 /\ Init!4 /\ Init!5 /\ Init!6
    /\ Init!7 /\ Init!8 /\ Init!10 /\ Init!11
    /\ lastOp = "useMemo"
    /\ \E options \in OptionLists :
          shuffle = [pc |-> "call", options |-> options,
                     array |-> OptionsWithIndex([options |-> options]),
                     newArray |-> <<>>, shared |-> FALSE, i |-> 0]

\* const newArray = [...array];  let i = newArray.length - 1
ShuffleCopy ==
    /\ shuffle.pc = "call"
    /\ LET copy == SpreadCopy(shuffle.array) IN
       shuffle' = [shuffle EXCEPT !.pc = "loop",
                                  !.newArray = copy.newArray,
                                  !.shared = copy.shared,
                                  !.i = Len(copy.newArray) - 1]
    /\ UNCHANGED <<quizState, isQuizStarted, user, closure, queued, localStorage,
                   shuffledOptions, turn, lastOp, startCalled, page>>

\* one pass of the loop body: draw j, swap, i--  (a write through newArray
\* is a write to the argument when the two are the same array)
ShuffleStep ==
    /\ shuffle.pc = "loop"
    /\ shuffle.i > 0
    /\ \E j \in 0 .. shuffle.i :
          LET swapped == Swap(shuffle.newArray, shuffle.i, j) IN
          shuffle' = [shuffle EXCEPT
                        !.newArray = swapped,
                        !.array = IF shuffle.shared THEN swapped ELSE @,
                        !.i = @ - 1]
    /\ UNCHANGED <<quizState, isQuizStarted, user, closure, queued, localStorage,
                   shuffledOptions, turn, lastOp, startCalled, page>>

\* the loop condition fails: return newArray, which useMemo keeps
ShuffleReturn ==
    /\ shuffle.pc = "loop"
    /\ shuffle.i <= 0
    /\ shuffle' = [shuffle EXCEPT !.pc = "done"]
    /\ shuffledOptions' = shuffle.newArray
    /\ UNCHANGED <<quizState, isQuizStarted, user, closure, queued, localStorage,
                   turn, lastOp, startCalled, page>>

NextShuffle == ShuffleCopy \/ ShuffleStep \/ ShuffleReturn

SpecShuffle == InitShuffle /\ [][NextShuffle]_vars

----------------------------------------------------------------------------
(* Page loads over a durable store whose contents the program did not write *)

\* a session in progress as an earlier visit saved it
SavedInProgress ==
    Stringify([getInitialQuizState(1) EXCEPT
                  !.currentQuestion = 1,
                  !.answers = MapAnswers(InitialAnswers, 1, 0)])

\* a session saved for a bank with one question less
SavedForOtherBank ==
    Stringify([getInitialQuizState(1) EXCEPT
                  !.answers = SubSeq(InitialAnswers, 1, Len(questions) - 1)])

\* what the page may find under the keys it reads at boot
FoundStores ==
    [state : {Absent, Malformed, SavedInProgress, SavedForOtherBank},
     started : {Absent, <<"true">>, Malformed},
     completed : {Absent},
     user : {Absent} \cup {<<u>> : u \in Users} \cup {Malformed}]

\* the page has not been loaded yet
InitBoot ==
    /\ Init!1 /\ Init!2 /\ Init!3 /\ Init!4 /\ Init!5
    /\ Init!7 /\ Init!8 /\ Init!9 /\ Init!10 /\ Init!12
    /\ localStorage \in FoundStores
    /\ page = "unloaded"

NextBoot ==
    \/ Reload
    \/ Render
    \/ startQuiz
    \/ \E questionId \in QuestionIds, answer \in AnswerValues :
          updateAnswer(questionId, answer)
    \/ submitQuiz
    \/ \E u \in Users : setUser(u)

SpecBoot == InitBoot /\ [][NextBoot]_vars

----------------------------------------------------------------------------
(* Properties *)

\* the records whose selectedAnswer is the correctAnswer of the question with
\* the same id
CorrectRecords(qs) ==
    {i \in 1 .. Len(qs.answers) :
        /\ qs.answers[i].selectedAnswer # Null
        /\ \E j \in 1 .. Len(questions) :
              /\ questions[j].id = qs.answers[i].questionId
              /\ questions[j].correctAnswer = qs.answers[i].selectedAnswer}

\* C1: calculateScore returns 0 whenever isCompleted is false, whatever the
\* answers are, and when isCompleted is true exactly the number of records
\* whose selectedAnswer equals the correctAnswer of the question with the same
\* id (an unanswered record never counts).
C1_ScoreCountsCorrectAfterSubmit ==
    calculateScore(quizState) =
        IF quizState.isCompleted THEN Cardinality(CorrectRecords(quizState)) ELSE 0

\* a submitted and rendered session with one correct and one wrong answer
C1_Witness ==
    /\ turn = 0
    /\ lastOp = "submitQuiz"
    /\ quizState.isCompleted
    /\ quizState.answers[1].selectedAnswer = 0
    /\ quizState.answers[2].selectedAnswer = 0
    /\ calculateScore(quizState) = 1

AllUnanswered(qs) ==
    \A i \in 1 .. Len(qs.answers) :
        qs.answers[i].selectedAnswer = Null /\ ~qs.answers[i].isAnswered

\* C2: once resetQuiz has been called (after any operations), and still after
\* the render and save effect that follow it, the position is 0, every record is
\* unanswered, isCompleted and isQuizStarted are false, the user is null and
\* the four keys of the durable store are absent.
C2_ResetRestoresFreshSession ==
    lastOp = "resetQuiz" =>
        /\ quizState.currentQuestion = 0
        /\ Len(quizState.answers) = Len(questions)
        /\ AllUnanswered(quizState)
        /\ ~quizState.isCompleted
        /\ ~isQuizStarted
        /\ user = NoUser
        /\ localStorage.state = Absent
        /\ localStorage.started = Absent
        /\ localStorage.completed = Absent
        /\ localStorage.user = Absent

\* resetQuiz has just been called on a rendered session that was started,
\* submitted and at the last question
C2_Witness ==
    /\ lastOp = "resetQuiz"
    /\ turn = 1
    /\ closure.isQuizStarted
    /\ closure.isCompleted
    /\ closure.currentQuestion = 1

\* the step is a call of the handler op
IsCall(op) == turn' = turn + 1 /\ lastOp' = op

\* C3: startQuiz always sets isQuizStarted and persists the started flag; on a
\* session that is not completed it replaces the answers by fresh unanswered
\* records and sets timeRemaining to the full duration; on a completed session
\* it leaves answers and timeRemaining as they were.
C3_StartResetsUnlessCompleted ==
    [][IsCall("startQuiz") =>
        /\ isQuizStarted'
        /\ localStorage'.started = <<"true">>
        /\ IF ~quizState.isCompleted
           THEN /\ quizState'.answers = InitialAnswers
                /\ quizState'.timeRemaining = QUIZ_DURATION
           ELSE /\ quizState'.answers = quizState.answers
                /\ quizState'.timeRemaining = quizState.timeRemaining]_vars

\* C4: once submitQuiz has been called, no later updateTimer call changes
\* timeRemaining, whatever value it supplies.
C4_TimerFrozenAfterSubmit ==
    [][(quizState.isCompleted /\ IsCall("updateTimer")) =>
        quizState'.timeRemaining = quizState.timeRemaining]_vars

\* C5: once isCompleted is true it stays true under every later operation and
\* under a page reload; only resetQuiz makes it false again.
C5_CompletedIsMonotonic ==
    [][(quizState.isCompleted /\ ~IsCall("resetQuiz")) =>
        quizState'.isCompleted]_vars

\* C6: when the session is started and not completed and the save effect has
\* run, a reload gives back the same currentQuestion, answers, timeRemaining,
\* isCompleted and startTime, and isQuizStarted is true again.
C6_ReloadRoundTrip ==
    [][(turn = 0 /\ isQuizStarted /\ ~quizState.isCompleted /\ Reload) =>
        /\ quizState'.currentQuestion = quizState.currentQuestion
        /\ quizState'.answers = quizState.answers
        /\ quizState'.timeRemaining = quizState.timeRemaining
        /\ quizState'.isCompleted = quizState.isCompleted
        /\ quizState'.startTime = quizState.startTime
        /\ isQuizStarted']_vars

\* a reload has rehydrated a started session at the last question, with one
\* answer recorded and the timer run down
C6_Witness ==
    /\ lastOp = "reload"
    /\ isQuizStarted
    /\ ~quizState.isCompleted
    /\ quizState.currentQuestion = 1
    /\ quizState.answers[2].selectedAnswer = 2
    /\ quizState.answers[2].isAnswered
    /\ quizState.timeRemaining = 1000
    /\ localStorage.state = Stringify(quizState)

\* C7: the in-progress slot is written only in states where the session is
\* started and not completed, so after submitQuiz or resetQuiz the slot stays
\* absent until startQuiz is called again.
C7_SlotWrittenOnlyWhileInProgress ==
    [][/\ (localStorage'.state # localStorage.state /\ localStorage'.state # Absent)
            => (isQuizStarted' /\ ~quizState'.isCompleted)
       /\ localStorage'.state # Absent => startCalled']_vars

\* what updateAnswer(questionId, answer) has to make of the record a
ExpectedRecord(a, questionId, answer) ==
    IF a.questionId = questionId
    THEN [questionId |-> a.questionId, selectedAnswer |-> answer,
          isAnswered |-> (answer # Null)]
    ELSE a

\* C8: updateAnswer(questionId, answer) changes only the record with that
\* questionId, giving it selectedAnswer = answer and isAnswered = (answer is not
\* null); the other records, their number and their order stay, and with no
\* record of that id nothing changes and no record is added.
C8_UpdateAnswerChangesOnlyMatchingRecord ==
    [][\A questionId \in QuestionIds, answer \in AnswerValues :
          updateAnswer(questionId, answer) =>
              /\ Len(quizState'.answers) = Len(quizState.answers)
              /\ \A i \in 1 .. Len(quizState.answers) :
                    quizState'.answers[i] =
                        ExpectedRecord(quizState.answers[i], questionId, answer)
              /\ (\A i \in 1 .. Len(quizState.answers) :
                     quizState.answers[i].questionId # questionId)
                    => quizState' = quizState
              /\ quizState' = [quizState EXCEPT !.answers = quizState'.answers]]_vars

\* updateAnswer has answered the record of question id 3 (the second record)
\* and left the first record answered as it was
C8_Witness ==
    /\ lastOp = "updateAnswer"
    /\ quizState.answers[1] = [questionId |-> 1, selectedAnswer |-> 2, isAnswered |-> TRUE]
    /\ quizState.answers[2] = [questionId |-> 3, selectedAnswer |-> 0, isAnswered |-> TRUE]
    /\ localStorage.state # Absent
    /\ Parse(localStorage.state).answers[2].selectedAnswer = Null
    /\ Parse(localStorage.state).answers[1].selectedAnswer = 2

LastPosition == Len(questions) - 1

\* C9: nextQuestion at the last position and previousQuestion at position 0
\* leave currentQuestion unchanged, otherwise they move it by +1 and -1;
\* goToQuestion(p) sets currentQuestion to p when 0 <= p < questions.length and
\* otherwise leaves the whole quizState unchanged.
C9_NavigationClamps ==
    [][/\ nextQuestion =>
             quizState' = [quizState EXCEPT !.currentQuestion =
                 IF quizState.currentQuestion = LastPosition
                 THEN quizState.currentQuestion
                 ELSE quizState.currentQuestion + 1]
       /\ previousQuestion =>
             quizState' = [quizState EXCEPT !.currentQuestion =
                 IF quizState.currentQuestion = 0
                 THEN quizState.currentQuestion
                 ELSE quizState.currentQuestion - 1]
       /\ \A p \in QuestionIndexes :
             goToQuestion(p) =>
                 IF 0 <= p /\ p < Len(questions)
                 THEN quizState' = [quizState EXCEPT !.currentQuestion = p]
                 ELSE quizState' = quizState /\ queued' = queued]_vars

\* nextQuestion has been called on a rendered session at the last position and
\* the position is still the last one
C9_Witness ==
    /\ lastOp = "nextQuestion"
    /\ turn = 1
    /\ closure.currentQuestion = LastPosition
    /\ quizState.currentQuestion = LastPosition

\* the question the mounted Question component shows
ShownQuestion == questions[closure.currentQuestion + 1]

\* the display positions (0-based) whose option is rendered as selected
FlaggedPositions ==
    {k \in 0 .. Len(shuffledOptions) - 1 :
        isSelected(quizState, ShownQuestion, shuffledOptions, k)}

\* C10: when the stored selectedAnswer of the question shown is an original
\* index o of its options, then under every display order the presenter
\* generates exactly one display position is flagged, the one whose entry has
\* originalIndex o (and shows option o); when selectedAnswer is null or no
\* index of the options, no position is flagged.
C10_SelectionInvariantUnderReshuffle ==
    shuffledOptions # Unmounted =>
        LET o == SelectedOriginalIndex(quizState, ShownQuestion)
            n == Len(ShownQuestion.options)
        IN  /\ Len(shuffledOptions) = n
            /\ IF o \in 0 .. n - 1
               THEN /\ Cardinality(FlaggedPositions) = 1
                    /\ \A k \in FlaggedPositions :
                          /\ shuffledOptions[k + 1].originalIndex = o
                          /\ shuffledOptions[k + 1].value = ShownQuestion.options[o + 1]
               ELSE FlaggedPositions = {}

\* the second question is shown in a display order that moved option 2 to the
\* first position, and that position is the one flagged for the stored answer 2
C10_Witness ==
    /\ shuffledOptions # Unmounted
    /\ turn = 0
    /\ closure.currentQuestion = 1
    /\ quizState.answers[2].selectedAnswer = 2
    /\ shuffledOptions[1].originalIndex = 2
    /\ shuffledOptions[3].originalIndex = 1
    /\ FlaggedPositions = {0}

\* C11: for a list of n options and every sequence of draws j in 0 .. i, what
\* shuffleArray returns has length n, its originalIndex values are each of
\* 0 .. n-1 exactly once, every entry carries the text the option list has at
\* its originalIndex, the argument is as it was passed, and for n < 2 the
\* result is in the order of the argument.  The result is also what the
\* operator shuffleArray gives for some draws.
C11_ShuffleIsBijection ==
    shuffle.pc = "done" =>
        LET n == Len(shuffle.options)
            given == OptionsWithIndex([options |-> shuffle.options])
        IN  /\ Len(shuffledOptions) = n
            /\ \A o \in 0 .. n - 1 :
                  Cardinality({k \in 1 .. n :
                                  shuffledOptions[k].originalIndex = o}) = 1
            /\ \A k \in 1 .. n :
                  shuffledOptions[k].value =
                      shuffle.options[shuffledOptions[k].originalIndex + 1]
            /\ shuffle.array = given
            /\ n < 2 => shuffledOptions = given
            /\ \E r \in RandomDraws(n) : shuffledOptions = shuffleArray(given, r)

\* three options, two of them with the same text, returned in reverse order
C11_Witness ==
    /\ shuffle.pc = "done"
    /\ shuffle.options = <<"a", "b", "a">>
    /\ shuffledOptions[1].originalIndex = 2
    /\ shuffledOptions[2].originalIndex = 1
    /\ shuffledOptions[3].originalIndex = 0

\* C12: a page load never fails on a stored value that does not parse: the
\* provider mounts, an unparsable in-progress state gives the initial state,
\* an unparsable started flag gives "not started" and an unparsable identity
\* record gives no user.
C12_BootToleratesMalformedValues ==
    [][Reload =>
          /\ page' = "mounted"
          /\ ParseThrows(localStorage.state) =>
                \E t \in Times : quizState' = getInitialQuizState(t)
          /\ ParseThrows(localStorage.started) => ~isQuizStarted'
          /\ ParseThrows(localStorage.user) => user' = NoUser]_vars

\* every position of the bank, ascending
AllPositions == [i \in 1 .. Len(questions) |-> i - 1]

\* seq is strictly ascending and its elements are exactly those of set
AscendingListOf(seq, set) ==
    /\ \A k \in 1 .. Len(seq) - 1 : seq[k] < seq[k + 1]
    /\ {seq[k] : k \in 1 .. Len(seq)} = set

UnansweredLists(qs) ==
    /\ AscendingListOf(getUnansweredQuestions(qs),
                       {i - 1 : i \in {j \in 1 .. Len(qs.answers) :
                                          ~qs.answers[j].isAnswered}})
    /\ (\A i \in 1 .. Len(qs.answers) : qs.answers[i].selectedAnswer # Null)
          => getUnansweredQuestions(qs) = <<>>

\* C13: getUnansweredQuestions returns, strictly ascending, exactly the 0-based
\* positions (not the ids) of the records with isAnswered false; it returns
\* every position after startQuiz is invoked on a rendered session that is
\* not completed, and nothing once every record has a non-null answer.
C13_UnansweredPositions ==
    /\ UnansweredLists(quizState)
    /\ [][/\ UnansweredLists(quizState')
          /\ (turn = 0 /\ ~quizState.isCompleted /\ IsCall("startQuiz"))
                => getUnansweredQuestions(quizState') = AllPositions]_vars

\* the question at position 1 has id 3 and is the only one left unanswered
\* after both were answered and the first was answered again
C13_Witness ==
    /\ startCalled
    /\ lastOp = "updateAnswer"
    /\ quizState.answers[1].isAnswered
    /\ quizState.answers[2].questionId = 3
    /\ getUnansweredQuestions(quizState) = <<1>>

\* the ids of the bank
BankIds == {questions[i].id : i \in 1 .. Len(questions)}

\* no record of a completed session is in the in-progress slot
CompletedIsNotStored == quizState.isCompleted => localStorage.state = Absent

\* C14: on a completed session updateAnswer(id, v) for an id of the bank still
\* sets that record (the session stays completed and calculateScore counts the
\* edited answers), and nothing of the completed session reaches the
\* in-progress slot: the slot is absent while the session is completed, and
\* the step that follows leaves it absent or writes an initial state to it.
C14_CompletedSessionTakesAnswers ==
    /\ CompletedIsNotStored
    /\ [][/\ \A questionId \in BankIds, answer \in AnswerValues :
                (quizState.isCompleted /\ updateAnswer(questionId, answer)) =>
                    /\ quizState'.isCompleted
                    /\ \A i \in 1 .. Len(quizState'.answers) :
                          quizState'.answers[i].questionId = questionId =>
                              quizState'.answers[i].selectedAnswer = answer
                    /\ calculateScore(quizState') =
                          Cardinality(CorrectRecords(quizState'))
          /\ CompletedIsNotStored'
          /\ quizState.isCompleted =>
                \/ localStorage'.state = Absent
                \/ \E t \in Times :
                      localStorage'.state = Stringify(getInitialQuizState(t))]_vars

\* in a turn after the one that submitted, updateAnswer gave question 3 its
\* correct answer: the score counts it and the slot is still absent
C14_Witness ==
    /\ lastOp = "updateAnswer"
    /\ turn = 1
    /\ closure.isCompleted
    /\ quizState.isCompleted
    /\ quizState.answers[1].selectedAnswer = Null
    /\ quizState.answers[2].selectedAnswer = 2
    /\ calculateScore(quizState) = 1
    /\ localStorage.state = Absent

\* the option texts rendered as selected
FlaggedTexts == {shuffledOptions[k + 1].value : k \in FlaggedPositions}

\* C15: a click on display position k stores, in the record of the question
\* shown and in no other, the originalIndex of the entry at k (not k), after
\* which k is the one flagged position of the display order clicked on; and
\* when the mounted presenter generates its display order again, the text
\* shown as selected is the same as before.
C15_ClickRoundTrip ==
    [][/\ \A k \in 0 .. Len(shuffledOptions) - 1 :
            handleAnswerSelect(k) =>
                /\ \A i \in 1 .. Len(quizState.answers) :
                      quizState'.answers[i] =
                          ExpectedRecord(quizState.answers[i], ShownQuestion.id,
                                         shuffledOptions[k + 1].originalIndex)
                /\ FlaggedPositions' = {k}
                /\ FlaggedTexts' = {shuffledOptions[k + 1].value}
       /\ (shuffledOptions # Unmounted /\ MountQuestion) =>
              FlaggedTexts' = FlaggedTexts]_vars

\* the click on the first display position of question 3, which shows the
\* option of original index 2, stored 2 and flags that position
C15_Witness ==
    /\ lastOp = "handleAnswerSelect"
    /\ closure.currentQuestion = 1
    /\ shuffledOptions[1].originalIndex = 2
    /\ shuffledOptions[2].originalIndex = 0
    /\ quizState.answers[2].selectedAnswer = 2
    /\ FlaggedPositions = {0}

\* what a render of the current state would show to the handlers
CurrentFields == RenderedFields(quizState, isQuizStarted)

\* C16: every call gives the state the same call gives when the calls before
\* it were made in an earlier event turn, that is, when a render of the
\* current state came first.  The handlers that only pass an updater do so
\* by construction; stated for the three that test the state before they
\* update: updateTimer, startQuiz and skipQuestion.
C16_CallsActOnCurrentState ==
    [][/\ IsCall("updateTimer") =>
             \E timeRemaining \in TimerValues :
                quizState' = IF TimerAccepts(CurrentFields)
                             THEN TimerUpdater(quizState, timeRemaining)
                             ELSE quizState
       /\ IsCall("startQuiz") =>
             \E t \in Times :
                quizState' = IF StartResets(CurrentFields)
                             THEN StartUpdater(quizState, t)
                             ELSE quizState
       /\ IsCall("skipQuestion") =>
             quizState' = IF SkipAdvances(CurrentFields)
                          THEN NextUpdater(quizState)
                          ELSE quizState]_vars

\* C17: in every state reached by the operations and page loads, answers
\* has one record per question of the bank, record i carries the id of the
\* i-th question, and isAnswered is true exactly when selectedAnswer is not
\* null.
C17_AnswerRecordInvariant ==
    /\ Len(quizState.answers) = Len(questions)
    /\ \A i \in 1 .. Len(quizState.answers) :
          /\ i <= Len(questions) => quizState.answers[i].questionId = questions[i].id
          /\ quizState.answers[i].isAnswered
                <=> quizState.answers[i].selectedAnswer # Null

\* a page load adopted a saved session in which the first record was
\* answered and then cleared and the second is answered
C17_Witness ==
    /\ lastOp = "reload"
    /\ startCalled
    /\ quizState.answers[1] =
          [questionId |-> 1, selectedAnswer |-> Null, isAnswered |-> FALSE]
    /\ quizState.answers[2] =
          [questionId |-> 3, selectedAnswer |-> 0, isAnswered |-> TRUE]
    /\ localStorage.state = Stringify(quizState)

\* C18: in every state reached by the operations and page loads, including
\* the adoption of a saved session, 0 <= currentQuestion < questions.length.
C18_PositionInvariant ==
    /\ 0 <= quizState.currentQuestion
    /\ quizState.currentQuestion < Len(questions)

\* skipQuestion was called after nextQuestion had reached the last question
\* in the same event turn, with the first question still rendered
C18_Witness ==
    /\ lastOp = "skipQuestion"
    /\ turn = 2
    /\ closure.currentQuestion = 0
    /\ quizState.currentQuestion = LastPosition

\* C19: timeRemaining is never negative and never above the full duration,
\* whatever value updateTimer is called with.
C19_TimeRemainingInRange ==
    /\ 0 <= quizState.timeRemaining
    /\ quizState.timeRemaining <= QUIZ_DURATION

\* C20: startQuiz never changes currentQuestion or isCompleted: the only
\* fields of quizState it can change are answers, timeRemaining and startTime,
\* so an attempt started again after navigating or after a page load begins
\* at the position that was current; resetQuiz, unlike it, goes back to
\* position 0.
C20_StartKeepsPosition ==
    [][/\ IsCall("startQuiz") =>
             /\ quizState'.currentQuestion = quizState.currentQuestion
             /\ quizState'.isCompleted = quizState.isCompleted
             /\ quizState' = [quizState EXCEPT
                                !.answers = quizState'.answers,
                                !.timeRemaining = quizState'.timeRemaining,
                                !.startTime = quizState'.startTime]
       /\ IsCall("resetQuiz") => quizState'.currentQuestion = 0]_vars

\* startQuiz was called on a rendered started session at the last question
\* with a ticked timer: the attempt is fresh and still at the last question
C20_Witness ==
    /\ lastOp = "startQuiz"
    /\ turn = 1
    /\ closure.isQuizStarted
    /\ ~closure.isCompleted
    /\ closure.currentQuestion = 1
    /\ localStorage.state # Absent
    /\ Parse(localStorage.state).timeRemaining = 1000
    /\ Parse(localStorage.state).answers[1].isAnswered
    /\ quizState.currentQuestion = 1
    /\ quizState.answers = InitialAnswers
    /\ quizState.timeRemaining = QUIZ_DURATION

====
